---------------------------- MODULE Spec2Model ----------------------------
(***************************************************************************)
(* stellaverse_rejected_filter.py: for each table, fetch score_sub.json,   *)
(* drop the entries whose md5 is in score.json or score_vote.json, and     *)
(* save the rest to <output_dir>/<table>/score.json.                       *)
(***************************************************************************)
EXTENDS Integers, Sequences, FiniteSets, TLC

(***************************************************************************)
(* Parsed JSON values.                                                      *)
(*   a field value v is [type, val], type in "str" "int" "null";            *)
(*   an array element is [type, md5, other]: type "dict" for a record,      *)
(*   md5 the value item.get("md5") gives (None when the key is missing),    *)
(*   other the name of the record's other key (or the scalar itself);       *)
(*   a top-level value is [type, items], type "list" for an array.          *)
(***************************************************************************)
MaxLen == 3

JNone == [type |-> "null", val |-> "null"]
JStr(s) == [type |-> "str", val |-> s]
JInt(s) == [type |-> "int", val |-> s]

Md5Strings == {"AAA", "aaa", "BBB"}

FieldValues == {JNone, JStr(""), JInt("0"), JInt("5")} \cup {JStr(s) : s \in Md5Strings}

Dict(md5, other) == [type |-> "dict", md5 |-> md5, other |-> other]

Items ==
    {Dict(v, "") : v \in FieldValues}
        \cup {Dict(JNone, "no_md5"), [type |-> "int", md5 |-> JNone, other |-> "7"]}

RECURSIVE SeqsUpTo(_, _)
SeqsUpTo(S, n) ==
    IF n = 0 THEN {<<>>}
    ELSE LET shorter == SeqsUpTo(S, n - 1)
         IN  shorter \cup {Append(s, x) : s \in {t \in shorter : Len(t) = n - 1}, x \in S}

List(items) == [type |-> "list", items |-> items]

NonLists == {[type |-> "dict", items |-> <<>>], [type |-> "null", items |-> <<>>]}

Lists == {List(s) : s \in SeqsUpTo(Items, MaxLen)}

JsonValues == Lists \cup NonLists

\* isinstance(x, list) / isinstance(x, dict)
IsList(data) == data.type = "list"
IsDict(item) == item.type = "dict"

\* Python truthiness of a field value: None, "" and 0 are falsy.
Truthy(v) ==
    CASE v.type = "null" -> FALSE
      [] v.type = "str"  -> v.val # ""
      [] v.type = "int"  -> v.val # "0"

\* str.lower() on the hash strings of the model.
LowerTable ==
    [s \in Md5Strings \cup {""} |->
        CASE s = "AAA" -> "aaa"
          [] s = "aaa" -> "aaa"
          [] s = "BBB" -> "bbb"
          [] s = ""    -> ""]

\* md5.lower(): only str has the method; on any other type the attribute
\* lookup raises AttributeError.
HasLower(v) == v.type = "str"
Lower(v) == LowerTable[v.val]

LowerHashes == {LowerTable[s] : s \in Md5Strings}

Returned(v) == [raised |-> FALSE, value |-> v]
Raised(v) == [raised |-> TRUE, value |-> v]

(***************************************************************************)
(* extract_md5s                                                             *)
(***************************************************************************)
RECURSIVE ExtractLoop(_, _, _)
ExtractLoop(items, i, md5s) ==
    IF i > Len(items) THEN Returned(md5s)
    ELSE LET item == items[i]
             md5 == item.md5
         IN  IF ~IsDict(item) THEN ExtractLoop(items, i + 1, md5s)
             ELSE IF ~Truthy(md5) THEN ExtractLoop(items, i + 1, md5s)
             ELSE IF ~HasLower(md5) THEN Raised({})
             ELSE ExtractLoop(items, i + 1, md5s \cup {Lower(md5)})

extract_md5s(data) ==
    IF ~IsList(data) THEN Returned({})
    ELSE ExtractLoop(data.items, 1, {})

(***************************************************************************)
(* filter_sub                                                               *)
(***************************************************************************)
\* filter_sub with filtered.insert(0, item) for filtered.append(item).
RECURSIVE FilterLoopPrepending(_, _, _, _)
FilterLoopPrepending(sub_data, i, exclude_md5s, filtered) ==
    IF i > Len(sub_data) THEN Returned(filtered)
    ELSE LET item == sub_data[i]
             md5 == item.md5
         IN  IF ~IsDict(item)
             THEN FilterLoopPrepending(sub_data, i + 1, exclude_md5s, <<item>> \o filtered)
             ELSE IF ~Truthy(md5)
             THEN FilterLoopPrepending(sub_data, i + 1, exclude_md5s, <<item>> \o filtered)
             ELSE IF ~HasLower(md5) THEN Raised(<<>>)
             ELSE IF Lower(md5) \in exclude_md5s
             THEN FilterLoopPrepending(sub_data, i + 1, exclude_md5s, filtered)
             ELSE FilterLoopPrepending(sub_data, i + 1, exclude_md5s, <<item>> \o filtered)

RECURSIVE FilterLoop(_, _, _, _)
FilterLoop(sub_data, i, exclude_md5s, filtered) ==
    IF i > Len(sub_data) THEN Returned(filtered)
    ELSE LET item == sub_data[i]
             md5 == item.md5
         IN  IF ~IsDict(item)
             THEN FilterLoop(sub_data, i + 1, exclude_md5s, Append(filtered, item))
             ELSE IF ~Truthy(md5)
             THEN FilterLoop(sub_data, i + 1, exclude_md5s, Append(filtered, item))
             ELSE IF ~HasLower(md5) THEN Raised(<<>>)
             ELSE IF Lower(md5) \in exclude_md5s
             THEN FilterLoop(sub_data, i + 1, exclude_md5s, filtered)
             ELSE FilterLoop(sub_data, i + 1, exclude_md5s, Append(filtered, item))

filter_sub(sub_data, exclude_md5s) == FilterLoop(sub_data, 1, exclude_md5s, <<>>)

(***************************************************************************)
(* fetch_json.  The remote side is the sequence of what each urlopen /      *)
(* read / json.loads attempt on the URL ends in: a parsed value, or one of  *)
(* the exceptions.  An exception instance is [kind, attempt].               *)
(***************************************************************************)
RETRY_COUNT == 3
RETRY_BACKOFF == [num |-> 3, den |-> 2]

Pow(b, n) == [num |-> b.num ^ n, den |-> b.den ^ n]

\* except (urllib.error.HTTPError, urllib.error.URLError, ValueError, TimeoutError)
CaughtErrors == {"HTTPError", "URLError", "ValueError", "TimeoutError"}
\* an exception of no class of the except clause (ConnectionResetError in read())
OtherErrors == {"OSError"}

Ok(v) == [kind |-> "ok", value |-> v]
Fails(k) == [kind |-> k, value |-> [type |-> "null", items |-> <<>>]]

Err(kind, attempt) == [kind |-> kind, attempt |-> attempt]
NoErr == Err("None", 0)

FetchResult(status, value, err, attempts, slept) ==
    [status |-> status, value |-> value, err |-> err, attempts |-> attempts, slept |-> slept]

NoValue == [type |-> "null", items |-> <<>>]

\* fetch_json sleeping after the last failed attempt too.
RECURSIVE FetchLoopSleepingLast(_, _, _, _, _)
FetchLoopSleepingLast(resp, retries, attempt, last_err, slept) ==
    IF attempt > retries
    THEN FetchResult("raised", NoValue, last_err, attempt - 1, slept)
    ELSE LET r == resp[attempt]
         IN  IF r.kind = "ok"
             THEN FetchResult("returned", r.value, NoErr, attempt, slept)
             ELSE IF r.kind \in CaughtErrors
             THEN FetchLoopSleepingLast(resp, retries, attempt + 1, Err(r.kind, attempt),
                                        Append(slept, Pow(RETRY_BACKOFF, attempt)))
             ELSE FetchResult("raised", NoValue, Err(r.kind, attempt), attempt, slept)

RECURSIVE FetchLoop(_, _, _, _, _)
FetchLoop(resp, retries, attempt, last_err, slept) ==
    IF attempt > retries
    THEN FetchResult("raised", NoValue, last_err, attempt - 1, slept)
    ELSE LET r == resp[attempt]
         IN  IF r.kind = "ok"
             THEN FetchResult("returned", r.value, NoErr, attempt, slept)
             ELSE IF r.kind \in CaughtErrors
             THEN FetchLoop(resp, retries, attempt + 1, Err(r.kind, attempt),
                            IF attempt < retries
                            THEN Append(slept, Pow(RETRY_BACKOFF, attempt))
                            ELSE slept)
             ELSE FetchResult("raised", NoValue, Err(r.kind, attempt), attempt, slept)

fetch_json(resp) == FetchLoop(resp, RETRY_COUNT, 1, NoErr, <<>>)

(***************************************************************************)
(* save_json.  A file is [st, text]: st "absent", "json" (a complete dump)  *)
(* or "partial" (opened for writing and truncated, the dump cut short by    *)
(* the failing write: some strict prefix of the text).                      *)
(***************************************************************************)
FieldText(v) ==
    CASE v.type = "str"  -> "\"" \o v.val \o "\""
      [] v.type = "int"  -> v.val
      [] v.type = "null" -> "null"

ItemText(item) ==
    IF ~IsDict(item) THEN item.other
    ELSE IF item.other # "" THEN "{\"" \o item.other \o "\": 1}"
    ELSE "{\"md5\": " \o FieldText(item.md5) \o "}"

\* json.dump(data, f, ensure_ascii=False, indent=2): one text per element.
json_dump(items) == [i \in 1..Len(items) |-> ItemText(items[i])]

Absent == [st |-> "absent", text |-> <<>>]
Partial == [st |-> "partial", text |-> <<>>]
JsonFile(text) == [st |-> "json", text |-> text]

\* what the file system does to this call: "ok", "makedirs_fails" (os.makedirs
\* or open raises OSError, nothing touched), "write_fails" (the write raises
\* OSError after open(path, "w") truncated the file).
WriteOutcomes == {"ok", "makedirs_fails", "write_fails"}

\* save_json opening the file with mode "a".
save_json_appending(items, path, wr, fs) ==
    CASE wr = "ok" ->
            [raised |-> FALSE,
             files |-> [fs EXCEPT ![path] = JsonFile(fs[path].text \o json_dump(items))]]
      [] wr = "makedirs_fails" ->
            [raised |-> TRUE, files |-> fs]
      [] wr = "write_fails" ->
            [raised |-> TRUE, files |-> [fs EXCEPT ![path] = Partial]]

save_json(items, path, wr, fs) ==
    CASE wr = "ok" ->
            [raised |-> FALSE, files |-> [fs EXCEPT ![path] = JsonFile(json_dump(items))]]
      [] wr = "makedirs_fails" ->
            [raised |-> TRUE, files |-> fs]
      [] wr = "write_fails" ->
            [raised |-> TRUE, files |-> [fs EXCEPT ![path] = Partial]]

(***************************************************************************)
(* process_table                                                            *)
(***************************************************************************)
TABLES == <<"st", "sl", "sn", "so", "dp", "dpst">>

SubUrl(table) == "https://stellabms.xyz/" \o table \o "/score_sub.json"
OfficialUrl(table) == "https://stellabms.xyz/" \o table \o "/score.json"
VoteUrl(table) == "https://stellabms.xyz/" \o table \o "/score_vote.json"

OutputDir == "docs"
OutPath(output_dir, table) == output_dir \o "/" \o table \o "/score.json"

\* How a call of process_table ended: outcome "success" (returned after
\* save_json), "skipped" (returned early) or "raised" (an exception left it);
\* fetched, the URLs fetch_json was called on, in order; saves, the number of
\* calls of save_json; files, the file system it leaves.
TableResult(outcome, fetched, saves, fs) ==
    [outcome |-> outcome, fetched |-> fetched, saves |-> saves, files |-> fs]

\* process_table going on with an empty submission list when the fetch fails.
SubFetchFailedGoesOn(table, fs) ==
    TableResult("success", <<SubUrl(table), OfficialUrl(table), VoteUrl(table)>>, 1,
                [fs EXCEPT ![OutPath(OutputDir, table)] = JsonFile(<<>>)])

\* except Exception around fetch_json(sub_url): log and return.
SubFetchFailed(table, fs) == TableResult("skipped", <<SubUrl(table)>>, 0, fs)

\* except Exception around fetch_json(official_url) / fetch_json(vote_url).
OrEmpty(fetch) == IF fetch.status = "raised" THEN List(<<>>) ELSE fetch.value

\* lines 177-186: the type check of sub, filter_sub, save_json.
FilterAndSave(table, output_dir, sub, exclude_md5s, fetched, wr, fs) ==
    IF ~IsList(sub) THEN TableResult("skipped", fetched, 0, fs)
    ELSE LET filtered == filter_sub(sub.items, exclude_md5s)
         IN  IF filtered.raised THEN TableResult("raised", fetched, 0, fs)
             ELSE LET saved == save_json(filtered.value, OutPath(output_dir, table), wr, fs)
                  IN  TableResult(IF saved.raised THEN "raised" ELSE "success",
                                  fetched, 1, saved.files)

process_table(table, output_dir, remote, wr, fs) ==
    LET sub_fetch == fetch_json(remote[SubUrl(table)])
    IN  IF sub_fetch.status = "raised" THEN SubFetchFailed(table, fs)
        ELSE LET sub == sub_fetch.value
                 official == OrEmpty(fetch_json(remote[OfficialUrl(table)]))
                 vote == OrEmpty(fetch_json(remote[VoteUrl(table)]))
                 fetched == <<SubUrl(table), OfficialUrl(table), VoteUrl(table)>>
                 md5s_official == extract_md5s(official)
                 md5s_vote == extract_md5s(vote)
             IN  IF md5s_official.raised \/ md5s_vote.raised
                 THEN TableResult("raised", fetched, 0, fs)
                 ELSE FilterAndSave(table, output_dir, sub,
                                    md5s_official.value \cup md5s_vote.value,
                                    fetched, wr, fs)

(***************************************************************************)
(* State.                                                                   *)
(*   data, exclude, op, ret: an input of extract_md5s / filter_sub, the     *)
(*     function applied to it and what the call ended in;                   *)
(*   resp, fetch: the remote side of one fetch_json call and its end;       *)
(*   idx, called, outcomes, last, mpc, exit_code: main's position in        *)
(*     TABLES, the tables process_table was called on, how each call ended, *)
(*     the last call in detail, main's control state and its return value;  *)
(*   files: the files under the output directory;                           *)
(*   tw_table, tw_remote, runs: a table whose remote responses stay the     *)
(*     same, and the runs of process_table on it so far.                    *)
(***************************************************************************)
VARIABLES data, exclude, op, ret, resp, fetch,
          idx, called, outcomes, last, mpc, exit_code, files,
          tw_table, tw_remote, runs

pvars == <<data, exclude, op, ret>>
fvars == <<resp, fetch>>
mvars == <<idx, called, outcomes, last, mpc, exit_code>>
tvars == <<tw_table, tw_remote, runs>>
vars == <<pvars, fvars, mvars, files, tvars>>

Paths == {OutPath(OutputDir, TABLES[i]) : i \in 1..Len(TABLES)}

OldFile == JsonFile(<<"{\"md5\": \"old\"}">>)

NoCall ==
    [table |-> "", served |-> <<>>, wr |-> "unused", before |-> Absent, after |-> Absent,
     outcome |-> "none", fetched |-> <<>>, saves |-> 0]

PIdle == data = NoValue /\ exclude = {} /\ op = "idle" /\ ret = Returned(<<>>)
FIdle == resp = <<>> /\ fetch = FetchResult("idle", NoValue, NoErr, 0, <<>>)
MIdle ==
    /\ idx = 0 /\ called = <<>> /\ outcomes = <<>> /\ last = NoCall
    /\ mpc = "idle" /\ exit_code = -1
TIdle == tw_table = "" /\ tw_remote = <<>> /\ runs = <<>>
NoFiles == files = [p \in Paths |-> Absent]

(***************************************************************************)
(* SpecPure: extract_md5s and filter_sub on every input of the model.      *)
(***************************************************************************)
PInit ==
    /\ data \in JsonValues
    /\ exclude \in SUBSET LowerHashes
    /\ op = "none"
    /\ ret = Returned(<<>>)
    /\ FIdle /\ MIdle /\ TIdle /\ NoFiles

CallFilterSub ==
    /\ op = "none"
    /\ IsList(data)
    /\ ret' = filter_sub(data.items, exclude)
    /\ op' = "filter_sub"
    /\ UNCHANGED <<data, exclude, fvars, mvars, files, tvars>>

CallExtractMd5s ==
    /\ op = "none"
    /\ ret' = extract_md5s(data)
    /\ op' = "extract_md5s"
    /\ UNCHANGED <<data, exclude, fvars, mvars, files, tvars>>

PNext == CallFilterSub \/ CallExtractMd5s

SpecPure == PInit /\ [][PNext]_vars

(***************************************************************************)
(* SpecFetch: one call of fetch_json against every remote behaviour.  The  *)
(* remote side has one more answer than fetch_json may ask for.             *)
(***************************************************************************)
FetchedValues == {List(<<>>), [type |-> "dict", items |-> <<>>]}

AttemptOutcomes ==
    {Fails(k) : k \in CaughtErrors \cup OtherErrors} \cup {Ok(v) : v \in FetchedValues}

FInit ==
    /\ resp \in [1..(RETRY_COUNT + 1) -> AttemptOutcomes]
    /\ fetch = FetchResult("none", NoValue, NoErr, 0, <<>>)
    /\ PIdle /\ MIdle /\ TIdle /\ NoFiles

CallFetchJson ==
    /\ fetch.status = "none"
    /\ fetch' = fetch_json(resp)
    /\ UNCHANGED <<resp, pvars, mvars, files, tvars>>

FNext == CallFetchJson

SpecFetch == FInit /\ [][FNext]_vars

(***************************************************************************)
(* The remote responses and file-system outcomes of the batch.             *)
(***************************************************************************)
Always(o) == [i \in 1..RETRY_COUNT |-> o]
Retried(o) == [i \in 1..RETRY_COUNT |-> IF i = 1 THEN Fails("TimeoutError") ELSE o]

EntryAAA == Dict(JStr("AAA"), "")
EntryBBB == Dict(JStr("BBB"), "")
EntryLowerAAA == Dict(JStr("aaa"), "")
EntryNoMd5 == Dict(JNone, "no_md5")
EntryNumber == Dict(JInt("5"), "")

SubResponses ==
    { Always(Fails("URLError")),
      Always(Ok([type |-> "dict", items |-> <<>>])),
      Always(Ok(List(<<EntryAAA, EntryBBB, EntryNoMd5>>))),
      Retried(Ok(List(<<EntryNoMd5, EntryNumber>>))) }

OfficialResponses ==
    { Always(Fails("HTTPError")),
      Always(Ok(List(<<EntryLowerAAA>>))),
      Always(Ok(List(<<EntryNumber>>))),
      Always(Ok([type |-> "null", items |-> <<>>])) }

VoteResponses ==
    { Always(Fails("URLError")),
      Retried(Ok(List(<<EntryBBB>>))),
      Always(Ok(List(<<>>))) }

\* The responses main() meets: the exclusion lists of the first scenario, or
\* an official list with a numeric md5.
MainOfficialResponses ==
    { Always(Ok(List(<<EntryLowerAAA>>))),
      Always(Ok(List(<<EntryNumber>>))) }

MainVoteResponses == { Always(Ok(List(<<>>))) }

Remote(table, rs, ro, rv) ==
    (SubUrl(table) :> rs) @@ (OfficialUrl(table) :> ro) @@ (VoteUrl(table) :> rv)

Range(s) == {s[i] : i \in 1..Len(s)}

\* The record of one call of process_table: what the remote side served to the
\* fetches made, the write outcome if save_json was called, the output file
\* before and after the call, and how the call ended.
CallRecord(table, remote, wr, fs, r) ==
    [table |-> table,
     served |-> [u \in Range(r.fetched) |-> remote[u]],
     wr |-> IF r.saves = 0 THEN "unused" ELSE wr,
     before |-> fs[OutPath(OutputDir, table)],
     after |-> r.files[OutPath(OutputDir, table)],
     outcome |-> r.outcome, fetched |-> r.fetched, saves |-> r.saves]

(***************************************************************************)
(* SpecMain: main().  Some output files exist from an earlier run.         *)
(***************************************************************************)
\* main without the try / except around process_table.
AfterTableUncaught(outcome) == IF outcome = "raised" THEN "crashed" ELSE "loop"

\* try: process_table(table, output_dir) / except Exception: logging.exception
AfterTable(outcome) == "loop"

MInit ==
    /\ idx = 1 /\ called = <<>> /\ outcomes = <<>> /\ last = NoCall
    /\ mpc = "loop" /\ exit_code = -1
    /\ files = [p \in Paths |->
                  IF \E i \in 1..Len(TABLES) : i % 2 = 0 /\ p = OutPath(OutputDir, TABLES[i])
                  THEN OldFile ELSE Absent]
    /\ PIdle /\ FIdle /\ TIdle

MainLoop ==
    /\ mpc = "loop"
    /\ idx <= Len(TABLES)
    /\ \E rs \in SubResponses, ro \in MainOfficialResponses, rv \in MainVoteResponses,
          wr \in WriteOutcomes :
          LET table == TABLES[idx]
              remote == Remote(table, rs, ro, rv)
              r == process_table(table, OutputDir, remote, wr, files)
          IN  /\ files' = r.files
              /\ called' = Append(called, table)
              /\ outcomes' = Append(outcomes, r.outcome)
              /\ last' = CallRecord(table, remote, wr, files, r)
              /\ mpc' = AfterTable(r.outcome)
    /\ idx' = idx + 1
    /\ UNCHANGED <<exit_code, pvars, fvars, tvars>>

MainReturn ==
    /\ mpc = "loop"
    /\ idx > Len(TABLES)
    /\ mpc' = "done"
    /\ exit_code' = 0
    /\ UNCHANGED <<idx, called, outcomes, last, files, pvars, fvars, tvars>>

MNext == MainLoop \/ MainReturn

SpecMain == MInit /\ [][MNext]_vars

(***************************************************************************)
(* SpecTwice: process_table run again and again on one table whose remote  *)
(* responses stay the same; the file system may fail any of the writes.    *)
(***************************************************************************)
NumRuns == 2

TInit ==
    /\ tw_table \in Range(TABLES)
    /\ \E rs \in SubResponses, ro \in OfficialResponses, rv \in VoteResponses :
          tw_remote = Remote(tw_table, rs, ro, rv)
    /\ runs = <<>>
    /\ \E f \in {Absent, OldFile, Partial} :
          files = [p \in Paths |-> IF p = OutPath(OutputDir, tw_table) THEN f ELSE Absent]
    /\ PIdle /\ FIdle /\ MIdle

RunTable ==
    /\ tw_table # ""
    /\ Len(runs) < NumRuns
    /\ \E wr \in WriteOutcomes :
          LET r == process_table(tw_table, OutputDir, tw_remote, wr, files)
          IN  /\ files' = r.files
              /\ runs' = Append(runs, CallRecord(tw_table, tw_remote, wr, files, r))
    /\ UNCHANGED <<tw_table, tw_remote, pvars, fvars, mvars>>

TNext == RunTable

SpecTwice == TInit /\ [][TNext]_vars

(***************************************************************************)
(* Properties.                                                              *)
(***************************************************************************)
RECURSIVE IsSubseq(_, _)
IsSubseq(a, b) ==
    IF a = <<>> THEN TRUE
    ELSE IF b = <<>> THEN FALSE
    ELSE IF Head(a) = Head(b) THEN IsSubseq(Tail(a), Tail(b))
    ELSE IsSubseq(a, Tail(b))

Count(x, s) == Cardinality({i \in 1..Len(s) : s[i] = x})

\* A record with a non-empty md5 string.
HasHash(item) == IsDict(item) /\ item.md5.type = "str" /\ item.md5.val # ""
HashOf(item) == LowerTable[item.md5.val]

\* The entries the specification keeps: all but the records whose hash is in E.
KeptBySpec(items, E) == SelectSeq(items, LAMBDA x : ~(HasHash(x) /\ HashOf(x) \in E))

\* The hashes the specification extracts from a parsed value.
HashesBySpec(v) ==
    IF ~IsList(v) THEN {} ELSE {HashOf(x) : x \in {y \in Range(v.items) : HasHash(y)}}

\* C1: filter_sub(S, E) drops exactly the records with a non-empty md5 whose
\* lower-cased value is in E and retains every other element: for every S and E
\* it returns S without those records.
C1_DropsExactlyExcluded ==
    op = "filter_sub" => ret = Returned(KeptBySpec(data.items, exclude))

\* C2: the list filter_sub returns is a subsequence of its input (same relative
\* order, nothing added, duplicated or changed), and the call leaves the input
\* list as it was.
C2_Subsequence ==
    [][(op = "none" /\ op' = "filter_sub" /\ ~ret'.raised)
          => (data' = data /\ IsSubseq(ret'.value, data.items))]_vars

C2_Witness ==
    /\ op = "filter_sub" /\ ~ret.raised
    /\ Len(ret.value) = 2 /\ Len(data.items) = 3
    /\ ret.value[1] # ret.value[2]
    /\ data.items[1] = ret.value[1]

\* C7: extract_md5s never raises: a non-array gives the empty set, an array the
\* set of the lower-cased md5 values of its records that have one.
C7_ExtractNeverRaises ==
    op = "extract_md5s" => ret = Returned(HashesBySpec(data))

\* C10: filter_sub never raises and keeps every malformed entry (a non-record,
\* or a record whose md5 is missing, empty or not a string) as it was.
C10_MalformedPassThrough ==
    op = "filter_sub" =>
        /\ ~ret.raised
        /\ \A x \in Range(data.items) :
              ~HasHash(x) => Count(x, ret.value) = Count(x, data.items)

\* What the fetch of a URL ended in, from what the remote side served to it.
SubFetch(c) == fetch_json(c.served[SubUrl(c.table)])
OfficialFetch(c) == fetch_json(c.served[OfficialUrl(c.table)])
VoteFetch(c) == fetch_json(c.served[VoteUrl(c.table)])

\* The list a fetched exclusion source stands for: the empty array if the
\* fetch failed after all retries.
SourceBySpec(fetched) == IF fetched.status = "raised" THEN List(<<>>) ELSE fetched.value

\* The file system let the call's save through (or was not asked).
WriteNotFailed(c) == c.wr \in {"ok", "unused"}

\* C3: when the submission fetch succeeds with an array (and the file system
\* does not fail the write), process_table writes to the table's score.json
\* exactly the submission array filtered by the union of the hashes of the
\* official and vote lists, a failed official or vote fetch counting as [].
C3_WritesFilteredSubmission ==
    \A i \in 1..Len(runs) :
        LET c == runs[i]
        IN  (SubFetch(c).status = "returned" /\ IsList(SubFetch(c).value) /\ WriteNotFailed(c))
                => /\ c.outcome = "success"
                   /\ c.after = JsonFile(json_dump(
                          KeptBySpec(SubFetch(c).value.items,
                                     HashesBySpec(SourceBySpec(OfficialFetch(c)))
                                        \cup HashesBySpec(SourceBySpec(VoteFetch(c))))))

\* C9: if the submission fetch succeeds with a value that is not an array,
\* process_table ends as skipped and leaves the output file alone, whatever the
\* official and vote fetches returned; a run that does not raise ends as
\* success with one save or as skipped with the file untouched.
C9_NonArraySkipped ==
    \A i \in 1..Len(runs) :
        LET c == runs[i]
        IN  /\ (SubFetch(c).status = "returned" /\ ~IsList(SubFetch(c).value))
                  => (c.outcome = "skipped" /\ c.saves = 0 /\ c.after = c.before)
            /\ c.outcome # "raised"
                  => \/ c.outcome = "success" /\ c.saves = 1
                     \/ c.outcome = "skipped" /\ c.saves = 0 /\ c.after = c.before

\* C8: two runs of process_table on a table whose remote responses are the
\* same leave the same output file, whatever the file held before the first
\* run, as long as the file system fails the save of neither run.
C8_Idempotent ==
    \A i \in 1..Len(runs), j \in 1..Len(runs) :
        (i < j /\ WriteNotFailed(runs[i]) /\ WriteNotFailed(runs[j]))
            => (runs[i].after = runs[j].after /\ runs[i].outcome = runs[j].outcome)

C8_Witness ==
    /\ Len(runs) >= 2
    /\ runs[1].outcome = "success" /\ runs[2].outcome = "success"
    /\ runs[1].before = OldFile
    /\ Len(runs[1].after.text) = 2
    /\ runs[2].before = runs[1].after

\* C4: if the submission fetch fails after all retries, process_table ends as
\* skipped having fetched nothing else and leaving the output file as it was
\* (absent or not), and main goes on with the next table.
C4_SubFetchFailureSkipsTable ==
    (last.outcome # "none" /\ SubFetch(last).status = "raised") =>
        /\ last.outcome = "skipped"
        /\ last.fetched = <<SubUrl(last.table)>>
        /\ last.saves = 0
        /\ files[OutPath(OutputDir, last.table)] = last.before
        /\ mpc \in {"loop", "done"}
        /\ idx = Len(called) + 1

C4_Witness ==
    /\ last.table = "sl" /\ last.outcome = "skipped"
    /\ SubFetch(last).status = "raised" /\ SubFetch(last).attempts = RETRY_COUNT
    /\ last.before = OldFile
    /\ outcomes[1] = "success"
    /\ mpc = "loop" /\ idx = 3
    /\ ENABLED MainLoop

\* C5: main calls process_table once for every table of TABLES, in order,
\* whatever the earlier calls ended in (an exception included), and then
\* returns 0.
C5_EveryTableOnceInOrder ==
    /\ mpc \in {"loop", "done"}
    /\ idx \in 1..(Len(TABLES) + 1)
    /\ called = SubSeq(TABLES, 1, idx - 1)
    /\ Len(outcomes) = Len(called)
    /\ mpc = "loop" => exit_code = -1
    /\ mpc = "done" => (called = TABLES /\ exit_code = 0)

C5_Witness ==
    /\ mpc = "done" /\ exit_code = 0
    /\ outcomes[1] = "raised" /\ files[OutPath(OutputDir, "st")] = Partial
    /\ outcomes[2] = "raised" /\ files[OutPath(OutputDir, "sl")] = OldFile
    /\ outcomes[3] = "skipped"
    /\ outcomes[Len(TABLES)] = "success"

==========================================================================
